---- MODULE Spec2Model ----
(***************************************************************************)
(* Model of strawberryfields.gbs.data.Dataset: a sparse sample matrix      *)
(* exposed through indexing, slicing, iteration, len and counts.           *)
(*                                                                         *)
(* A dataset is a sequence of n_samples rows, each a sequence of modes     *)
(* non-negative integers.  Python index i is position i + 1 of a TLA+      *)
(* sequence.  An optional integer (None or an int) is the empty sequence   *)
(* or a one-element sequence.                                              *)
(***************************************************************************)
EXTENDS Integers, Sequences, FiniteSets

VARIABLES
    data,        \* self.data: the sample matrix, a sequence of rows
    n_samples,   \* self.n_samples
    modes,       \* self.modes
    _count,      \* self._count: the iteration cursor
    op,          \* the last call made on the instance
    key,         \* the key of the last __getitem__ call
    axis,        \* the axis of the last counts call
    caller,      \* the consumer that made the last __next__ call
    ret,         \* what the last call returned
    exc,         \* what the last call raised ("none" when it returned)
    handed,      \* history: <<consumer, row>> handed out in the current pass
    stops,       \* history: StopIteration signals so far (saturating at MaxStops)
    iterating,   \* history: a for-loop over the instance is running
    got,         \* history: the rows the current (or last) for-loop received
    start,       \* history: the cursor when the current (or last) for-loop began
    ended,       \* history: how the last finished for-loop ended
    prevEnd,     \* history: ended, as it was when the current for-loop began
    first,       \* history: the rows of the first for-loop that ran to exhaustion
    passes,      \* history: for-loops run to exhaustion (saturating at MaxPasses)
    abandoned,   \* history: some for-loop was left before exhaustion
    fresh        \* history: what every query returned on the new instance (under Spec)

prog == <<data, n_samples, modes, _count>>
obs == <<op, key, axis, caller, ret, exc>>
passHist == <<handed, stops>>
loopHist == <<iterating, got, start, ended, prevEnd, first, passes, abandoned>>
vars == <<prog, obs, passHist, loopHist, fresh>>

----------------------------------------------------------------------------
(* Bounds of the model *)

MaxSamples == 3
MaxModes == 2
MaxPhotons == 2
MaxStep == 2
MaxStops == 2
MaxPasses == 2

Consumers == {1, 2}

----------------------------------------------------------------------------
(* Values *)

None == <<>>
Some(v) == <<v>>
IsNone(o) == Len(o) = 0
Val(o) == o[1]
Opt(S) == {None} \cup {Some(v) : v \in S}

RECURSIVE SumSeq(_)
SumSeq(s) == IF Len(s) = 0 THEN 0 ELSE Head(s) + SumSeq(Tail(s))

\* every row of length m whose entries are naturals summing to at most p
RECURSIVE RowsUpTo(_, _)
RowsUpTo(m, p) ==
    IF m = 0 THEN {<<>>}
    ELSE UNION {{<<v>> \o r : r \in RowsUpTo(m - 1, p - v)} : v \in 0..p}

\* every n x m matrix of naturals holding at most p photons in all
RECURSIVE Matrices(_, _, _)
Matrices(n, m, p) ==
    IF n = 0 THEN {<<>>}
    ELSE UNION {{<<r>> \o d : d \in Matrices(n - 1, m, p - SumSeq(r))} : r \in RowsUpTo(m, p)}

\* keys of __getitem__
IntKey(i) == [type |-> "int", i |-> i, items |-> <<>>]
SliceKey(a, b, c) == [type |-> "slice", i |-> 0, items |-> <<a, b, c>>]
TupleKey(t) == [type |-> "tuple", i |-> 0, items |-> t]
OtherKey(t) == [type |-> t, i |-> 0, items |-> <<>>]
NoKey == OtherKey("")

Returned(v) == [exc |-> "none", val |-> v]
Raised(e) == [exc |-> e, val |-> <<>>]

----------------------------------------------------------------------------
(* Dataset *)

\* scipy row access self.data[i] on an (n_samples x modes) csr matrix: an index
\* outside [-n_samples, n_samples) raises IndexError, a negative one counts from
\* the end; .toarray()[0] makes the row a dense list of length modes
_elem(i) ==
    IF i < -n_samples \/ i >= n_samples THEN Raised("IndexError")
    ELSE Returned(data[(IF i < 0 THEN i + n_samples ELSE i) + 1])

\* slice(*key): one, two or three arguments
slice(t) ==
    CASE Len(t) = 1 -> Returned(<<None, t[1], None>>)
      [] Len(t) = 2 -> Returned(<<t[1], t[2], None>>)
      [] Len(t) = 3 -> Returned(<<t[1], t[2], t[3]>>)
      [] OTHER -> Raised("TypeError")

\* indices with the bounds of a positive step used for a negative step as well
indicesPositiveBounds(s, length) ==
    LET step == IF IsNone(s[3]) THEN 1 ELSE Val(s[3])
        lower == 0
        upper == length
        clamp(o, dflt) ==
            IF IsNone(o) THEN dflt
            ELSE IF Val(o) < 0
                 THEN (IF Val(o) + length < lower THEN lower ELSE Val(o) + length)
                 ELSE (IF Val(o) > upper THEN upper ELSE Val(o))
    IN  IF step = 0 THEN Raised("ValueError")
        ELSE Returned(<<clamp(s[1], IF step < 0 THEN upper - 1 ELSE lower),
                        clamp(s[2], IF step < 0 THEN lower ELSE upper),
                        step>>)

\* slice.indices(length): (start, stop, step) clamped against length
indices(s, length) ==
    LET step == IF IsNone(s[3]) THEN 1 ELSE Val(s[3])
        lower == IF step < 0 THEN -1 ELSE 0
        upper == IF step < 0 THEN length - 1 ELSE length
        clamp(o, dflt) ==
            IF IsNone(o) THEN dflt
            ELSE IF Val(o) < 0
                 THEN (IF Val(o) + length < lower THEN lower ELSE Val(o) + length)
                 ELSE (IF Val(o) > upper THEN upper ELSE Val(o))
    IN  IF step = 0 THEN Raised("ValueError")
        ELSE Returned(<<clamp(s[1], IF step < 0 THEN upper ELSE lower),
                        clamp(s[2], IF step < 0 THEN lower ELSE upper),
                        step>>)

\* range(start, stop, step) as the sequence of its values
range(r) ==
    LET lo == r[1]
        hi == r[2]
        step == r[3]
        len == IF step > 0
               THEN (IF lo < hi THEN ((hi - lo - 1) \div step) + 1 ELSE 0)
               ELSE (IF lo > hi THEN ((lo - hi - 1) \div (-step)) + 1 ELSE 0)
    IN  [k \in 1..len |-> lo + (k - 1) * step]

RowsAt(is) ==
    IF \E p \in 1..Len(is) : _elem(is[p]).exc # "none"
    THEN Raised("IndexError")
    ELSE Returned([p \in 1..Len(is) |-> _elem(is[p]).val])

SliceRows(s) ==
    IF s.exc # "none" THEN s
    ELSE LET range_tuple == indices(s.val, n_samples)
         IN  IF range_tuple.exc # "none" THEN range_tuple
             ELSE RowsAt(range(range_tuple.val))

isinstance(k) == k.type \in {"slice", "tuple", "int"}

\* __getitem__ returning an empty list for a key of an unsupported type
__getitem__Lenient(k) ==
    IF ~isinstance(k) THEN Returned(<<>>)
    ELSE IF k.type = "int" THEN _elem(IF k.i < 0 THEN k.i + n_samples ELSE k.i)
    ELSE SliceRows(IF k.type = "tuple" THEN slice(k.items) ELSE Returned(k.items))

\* __getitem__ counting a negative index from the last row instead of the end
__getitem__WrongEnd(k) ==
    IF ~isinstance(k) THEN Raised("TypeError")
    ELSE IF k.type = "int" THEN _elem(IF k.i < 0 THEN k.i + n_samples - 1 ELSE k.i)
    ELSE SliceRows(IF k.type = "tuple" THEN slice(k.items) ELSE Returned(k.items))

__getitem__(k) ==
    IF ~isinstance(k) THEN Raised("TypeError")
    ELSE IF k.type = "int" THEN _elem(IF k.i < 0 THEN k.i + n_samples ELSE k.i)
    ELSE SliceRows(IF k.type = "tuple" THEN slice(k.items) ELSE Returned(k.items))

__len__ == Returned(n_samples)

\* self.data.sum(axis), flattened to a list: axis must be None or in [-2, 2)
sum0 == [m \in 1..modes |-> SumSeq([k \in 1..n_samples |-> data[k][m]])]
sum1 == [k \in 1..n_samples |-> SumSeq(data[k])]
\* counts with the two axes exchanged
countsSwapped(a) ==
    IF IsNone(a) THEN Returned(<<SumSeq(sum1)>>)
    ELSE IF Val(a) < -2 \/ Val(a) >= 2 THEN Raised("ValueError")
    ELSE IF Val(a) \in {0, -2} THEN Returned(sum1)
    ELSE Returned(sum0)

counts(a) ==
    IF IsNone(a) THEN Returned(<<SumSeq(sum1)>>)
    ELSE IF Val(a) < -2 \/ Val(a) >= 2 THEN Raised("ValueError")
    ELSE IF Val(a) \in {0, -2} THEN Returned(sum0)
    ELSE Returned(sum1)

----------------------------------------------------------------------------
(* Iteration *)

\* __next__ leaving the cursor where it is on exhaustion
__next__NoReset ==
    IF _count < n_samples
    THEN [count |-> _count + 1, r |-> __getitem__(IntKey((_count + 1) - 1))]
    ELSE [count |-> _count, r |-> Raised("StopIteration")]

\* __next__ stopping one row early
__next__EarlyStop ==
    IF _count < n_samples - 1
    THEN [count |-> _count + 1, r |-> __getitem__(IntKey((_count + 1) - 1))]
    ELSE [count |-> 0, r |-> Raised("StopIteration")]

\* __next__ stopping one call late
__next__LateStop ==
    IF _count <= n_samples
    THEN [count |-> _count + 1, r |-> __getitem__(IntKey((_count + 1) - 1))]
    ELSE [count |-> 0, r |-> Raised("StopIteration")]

\* __next__ returning the row at the advanced cursor
__next__OffByOne ==
    IF _count < n_samples
    THEN [count |-> _count + 1, r |-> __getitem__(IntKey(_count + 1))]
    ELSE [count |-> 0, r |-> Raised("StopIteration")]

\* one __next__ call: the cursor it leaves and what it returns or raises
__next__ ==
    IF _count < n_samples
    THEN [count |-> _count + 1, r |-> __getitem__(IntKey((_count + 1) - 1))]
    ELSE [count |-> 0, r |-> Raised("StopIteration")]

----------------------------------------------------------------------------
(* Construction *)

\* Dataset.__init__: data loaded from the file, n_samples and modes its shape;
\* _count is the class attribute 0
InitProg ==
    /\ n_samples \in 0..MaxSamples
    /\ modes \in 1..MaxModes
    /\ data \in Matrices(n_samples, modes, MaxPhotons)
    /\ _count = 0

IntRange == -(2 * MaxSamples + 1)..(MaxSamples + 1)
Bounds == Opt(-(MaxSamples + 1)..(MaxSamples + 1))
Steps == Opt(-MaxStep..MaxStep)

OtherKeys == {OtherKey("float"), OtherKey("str"), OtherKey("NoneType"), OtherKey("list")}

AccessKeys ==
    {IntKey(i) : i \in -(MaxSamples + 1)..MaxSamples}
    \cup {SliceKey(None, None, c) : c \in {None, Some(0), Some(-1)}}
    \cup {TupleKey(t) : t \in {<<>>, <<Some(1)>>, <<Some(-1), None>>,
                               <<None, None, Some(-1)>>, <<None, None, None, None>>}}
    \cup OtherKeys

Axes == Opt(-3..2)

\* every query of the model, answered in the current state
Answers ==
    [getitem |-> [k \in AccessKeys |-> __getitem__(k)],
     len |-> __len__,
     counts |-> [a \in Axes |-> counts(a)]]

InitObs ==
    /\ op = "new"
    /\ key = NoKey
    /\ axis = None
    /\ caller = 0
    /\ ret = <<>>
    /\ exc = "none"

InitHist ==
    /\ handed = <<>>
    /\ stops = 0
    /\ iterating = FALSE
    /\ got = <<>>
    /\ start = 0
    /\ ended = "new"
    /\ prevEnd = "new"
    /\ first = <<>>
    /\ passes = 0
    /\ abandoned = FALSE

\* the new instance, with the answers of its queries recorded
Init == InitProg /\ InitObs /\ InitHist /\ fresh = Answers

\* the new instance, with no answers recorded
InitPlain == InitProg /\ InitObs /\ InitHist /\ fresh = <<>>

----------------------------------------------------------------------------
(* Calls on the instance *)

Observe(o, k, a, c, r) ==
    /\ op' = o
    /\ key' = k
    /\ axis' = a
    /\ caller' = c
    /\ ret' = r.val
    /\ exc' = r.exc

\* __getitem__ rewinding the cursor when it returns a row
GetItemSeeking(k) ==
    /\ Observe("getitem", k, None, 0, __getitem__(k))
    /\ _count' = IF k.type = "int" /\ __getitem__(k).exc = "none" THEN 0 ELSE _count
    /\ UNCHANGED <<data, n_samples, modes>>

GetItem(k) ==
    /\ Observe("getitem", k, None, 0, __getitem__(k))
    /\ UNCHANGED prog

LenCall ==
    /\ Observe("len", NoKey, None, 0, __len__)
    /\ UNCHANGED prog

Counts(a) ==
    /\ Observe("counts", NoKey, a, 0, counts(a))
    /\ UNCHANGED prog

Next(c) ==
    /\ _count' = __next__.count
    /\ Observe("next", NoKey, None, c, __next__.r)
    /\ UNCHANGED <<data, n_samples, modes>>

\* __iter__ returns self
Iter ==
    /\ Observe("iter", NoKey, None, 0, Returned("self"))
    /\ UNCHANGED prog

----------------------------------------------------------------------------
(* Spec: one instance under indexing, len, counts and __next__ *)

Index == \E k \in AccessKeys : GetItem(k) /\ UNCHANGED <<passHist, loopHist, fresh>>
Length == LenCall /\ UNCHANGED <<passHist, loopHist, fresh>>
Count == \E a \in Axes : Counts(a) /\ UNCHANGED <<passHist, loopHist, fresh>>
Advance == \E c \in Consumers : Next(c) /\ UNCHANGED <<passHist, loopHist, fresh>>

NextAccess == Index \/ Length \/ Count \/ Advance

Spec == Init /\ [][NextAccess]_vars

----------------------------------------------------------------------------
(* SpecShared: two consumers calling __next__ on the same instance *)

Consume(c) ==
    /\ Next(c)
    /\ LET base == IF op = "next" /\ exc = "StopIteration" THEN <<>> ELSE handed
       IN  handed' = IF exc' = "none"
                     THEN Append(base, [who |-> c, row |-> ret'])
                     ELSE base
    /\ stops' = IF exc' = "StopIteration" /\ stops < MaxStops THEN stops + 1 ELSE stops
    /\ UNCHANGED <<loopHist, fresh>>

Share == \E c \in Consumers : Consume(c)

SpecShared == InitPlain /\ [][Share]_vars

----------------------------------------------------------------------------
(* SpecLoop: one consumer running for-loops over the instance,              *)
(* each to exhaustion or left with break, with queries in between           *)

\* for row in dataset: calls __iter__ once
Begin ==
    /\ ~iterating
    /\ Iter
    /\ iterating' = TRUE
    /\ got' = <<>>
    /\ start' = _count
    /\ prevEnd' = ended
    /\ UNCHANGED <<ended, first, passes, abandoned, passHist, fresh>>

\* the loop calls __next__ until it raises
Step ==
    /\ iterating
    /\ Next(1)
    /\ got' = IF exc' = "none" THEN Append(got, ret') ELSE got
    /\ iterating' = (exc' = "none")
    /\ ended' = IF exc' = "none" THEN ended
                ELSE IF exc' = "StopIteration" THEN "exhausted" ELSE "raised"
    /\ first' = IF exc' = "StopIteration" /\ passes = 0 THEN got ELSE first
    /\ passes' = IF exc' = "StopIteration" /\ passes < MaxPasses THEN passes + 1 ELSE passes
    /\ UNCHANGED <<start, prevEnd, abandoned, passHist, fresh>>

\* the consumer leaves the loop early
Break ==
    /\ iterating
    /\ iterating' = FALSE
    /\ ended' = "abandoned"
    /\ abandoned' = TRUE
    /\ UNCHANGED <<prog, obs, passHist, got, start, prevEnd, first, passes, fresh>>

LoopKeys == {IntKey(-1)}

Query ==
    /\ \/ LenCall
       \/ Counts(Some(1))
       \/ \E k \in LoopKeys : GetItem(k)
    /\ UNCHANGED <<passHist, loopHist, fresh>>

NextLoop == Begin \/ Step \/ Break \/ Query

SpecLoop == InitPlain /\ [][NextLoop]_vars

----------------------------------------------------------------------------
(* SpecGetItem: one __getitem__ call on a new instance, over every key *)

IntKeys == {IntKey(i) : i \in IntRange}
SliceKeys == {SliceKey(a, b, c) : a \in Bounds, b \in Bounds, c \in Steps}

Apply ==
    /\ op = "new"
    /\ \E k \in IntKeys \cup SliceKeys : GetItem(k)
    /\ UNCHANGED <<passHist, loopHist, fresh>>

SpecGetItem == InitPlain /\ [][Apply]_vars

----------------------------------------------------------------------------
(* Reference notions the properties are stated with *)

\* the row at Python index i
Row(i) == data[i + 1]

\* all rows, in index order
Rows == [p \in 1..n_samples |-> Row(p - 1)]

RECURSIVE ColSum(_, _)
ColSum(m, n) == IF n = 0 THEN 0 ELSE data[n][m] + ColSum(m, n - 1)

Min(S) == CHOOSE x \in S : \A y \in S : x <= y
Max(S) == CHOOSE x \in S : \A y \in S : x >= y

RECURSIVE Ascending(_)
Ascending(S) == IF S = {} THEN <<>> ELSE <<Min(S)>> \o Ascending(S \ {Min(S)})

RECURSIVE Descending(_)
Descending(S) == IF S = {} THEN <<>> ELSE <<Max(S)>> \o Descending(S \ {Max(S)})

\* the indices a sequence of length n yields for [start:stop:step], by the
\* language definition of slicing: x = i + m * k between the normalized bounds
SliceRef(s, n) ==
    LET k == IF IsNone(s[3]) THEN 1 ELSE Val(s[3])
        norm(o) == IF Val(o) < 0 THEN Val(o) + n ELSE Val(o)
    IN  IF k > 0
        THEN LET i0 == IF IsNone(s[1]) THEN 0 ELSE norm(s[1])
                 i == IF i0 < 0 THEN 0 ELSE i0
                 j == IF IsNone(s[2]) THEN n ELSE norm(s[2])
             IN  Ascending({x \in 0..(n - 1) : x >= i /\ x < j /\ (x - i) % k = 0})
        ELSE LET i0 == IF IsNone(s[1]) THEN n - 1 ELSE norm(s[1])
                 i == IF i0 > n - 1 THEN n - 1 ELSE i0
                 j == IF IsNone(s[2]) THEN -1 ELSE norm(s[2])
             IN  Descending({x \in 0..(n - 1) : x <= i /\ x > j /\ (i - x) % (-k) = 0})

----------------------------------------------------------------------------
(* Properties *)

\* C1: every integer key outside [-n_samples, n_samples) makes __getitem__ fail
\* with IndexError and return no row; a row is returned only for keys inside it.
C1_OutOfRangeRaises ==
    (op = "getitem" /\ key.type = "int") =>
        /\ (key.i < -n_samples \/ key.i >= n_samples) => (exc = "IndexError" /\ ret = <<>>)
        /\ exc = "none" => (key.i >= -n_samples /\ key.i < n_samples)

\* C2 (as claimed): a for-loop run to its StopIteration yields exactly
\* n_samples rows, whatever the instance went through before.
C2_FullFromAnyState ==
    (op = "next" /\ exc = "StopIteration") => Len(got) = __len__.val

\* C2 (amended): a for-loop run to its StopIteration yields the rows from the
\* cursor it began at to the end, n_samples minus that cursor of them; that is
\* n_samples rows when the loop began on a new instance or after a loop that ran
\* to exhaustion.
C2_FromCursor ==
    /\ (op = "next" /\ exc = "StopIteration") =>
        /\ Len(got) = __len__.val - start
        /\ \A p \in 1..Len(got) : got[p] = Row(start + p - 1)
        /\ prevEnd \in {"new", "exhausted"} => Len(got) = __len__.val
    /\ (iterating /\ prevEnd \in {"new", "exhausted"}) => start = 0

C2_Witness ==
    /\ op = "next" /\ exc = "StopIteration"
    /\ prevEnd = "abandoned"
    /\ start > 0
    /\ Len(got) > 0
    /\ Len(got) < n_samples

\* C3: on a new instance with one consumer, every for-loop run to exhaustion
\* yields rows 0 .. n_samples-1 in index order, each equal to __getitem__(i), the
\* same sequence as the first loop; a loop started after an exhaustion begins at
\* row 0.
C3_Restart ==
    ~abandoned =>
        /\ (op = "next" /\ exc = "StopIteration") =>
            /\ Len(got) = n_samples
            /\ \A i \in 0..(n_samples - 1) : got[i + 1] = __getitem__(IntKey(i)).val
            /\ got = first
        /\ iterating =>
            /\ start = 0
            /\ \A p \in 1..Len(got) : got[p] = Row(p - 1)

C3_Witness ==
    /\ ~abandoned
    /\ op = "next" /\ exc = "StopIteration"
    /\ passes >= 2
    /\ n_samples >= 2
    /\ got[1] # got[2]

\* C4: two consumers share one cursor: every __next__ call returns the row at
\* the cursor and advances it whoever calls, so the rows handed out in a pass
\* ended by StopIteration are rows 0 .. n_samples-1 in index order, each to one
\* consumer.
C4_SharedCursor ==
    /\ Len(handed) <= n_samples
    /\ \A p \in 1..Len(handed) : handed[p].row = Row(p - 1) /\ handed[p].who \in Consumers
    /\ (op = "next" /\ exc = "none") =>
        /\ Len(handed) = _count
        /\ handed[_count] = [who |-> caller, row |-> ret]
    /\ (op = "next" /\ exc = "StopIteration") =>
        /\ Len(handed) = n_samples
        /\ _count = 0
    /\ op = "next" => exc \in {"none", "StopIteration"}

C4_Witness ==
    /\ op = "next" /\ exc = "StopIteration"
    /\ stops >= 2
    /\ n_samples >= 2
    /\ \E p, q \in 1..Len(handed) :
        /\ handed[p].who = 1
        /\ handed[q].who = 2
        /\ handed[p].row # handed[q].row

\* C5: for every slice key with a non-zero or absent step, __getitem__ returns
\* the list of __getitem__(i) for i in the slice's range normalized against
\* n_samples, in range order; bounds beyond the dataset are clamped and an empty
\* range gives an empty list.
C5_SliceMatchesRange ==
    (op = "getitem" /\ key.type = "slice" /\ key.items[3] # Some(0)) =>
        LET is == SliceRef(key.items, n_samples)
        IN  /\ exc = "none"
            /\ ret = [p \in 1..Len(is) |-> __getitem__(IntKey(is[p])).val]

C5_Witness ==
    /\ op = "getitem" /\ key.type = "slice"
    /\ key.items = <<Some(n_samples + 1), Some(-(n_samples + 1)), Some(-2)>>
    /\ n_samples = 3
    /\ ret = <<Row(2), Row(0)>>
    /\ Row(2) # Row(0)

\* C6: counts(1) lists, for each sample k, the sum of __getitem__(k); counts(0)
\* lists, for each mode m, the sum of column m over all samples; the two lists
\* have the same total.
C6_Counts ==
    /\ (op = "counts" /\ axis = Some(1)) =>
        /\ exc = "none"
        /\ Len(ret) = n_samples
        /\ \A k \in 0..(n_samples - 1) : ret[k + 1] = SumSeq(__getitem__(IntKey(k)).val)
        /\ SumSeq(ret) = SumSeq(counts(Some(0)).val)
    /\ (op = "counts" /\ axis = Some(0)) =>
        /\ exc = "none"
        /\ Len(ret) = modes
        /\ \A m \in 1..modes : ret[m] = ColSum(m, n_samples)
        /\ SumSeq(ret) = SumSeq(counts(Some(1)).val)

C6_Witness ==
    /\ op = "counts" /\ axis = Some(1)
    /\ n_samples = 3
    /\ modes = 2
    /\ ret = <<2, 0, 0>>

\* C7: for every i in [0, n_samples), __getitem__(i) and
\* __getitem__(-(n_samples - i)) return the same row; __getitem__(-1) is the last
\* sample; every returned row has length modes.
C7_NegativeIndex ==
    (op = "getitem" /\ key.type = "int") =>
        /\ (key.i >= 0 /\ key.i < n_samples) =>
            /\ exc = "none"
            /\ ret = __getitem__(IntKey(-(n_samples - key.i))).val
            /\ ret = Row(key.i)
        /\ (key.i = -1 /\ n_samples >= 1) => (exc = "none" /\ ret = Row(n_samples - 1))
        /\ exc = "none" => Len(ret) = modes

C7_Witness ==
    /\ op = "getitem" /\ key = IntKey(-1)
    /\ n_samples = 3
    /\ exc = "none"
    /\ ret = Row(2)
    /\ ret # Row(0) /\ ret # Row(1)

\* C8: __getitem__ with a key that is no integer, slice or tuple raises
\* TypeError, returns no row and leaves data, n_samples, modes and the cursor as
\* they were.
C8_TypeError ==
    [][(op' = "getitem" /\ key'.type \notin {"int", "slice", "tuple"}) =>
        /\ exc' = "TypeError"
        /\ ret' = <<>>
        /\ UNCHANGED prog]_vars

C8_Witness ==
    /\ op = "getitem" /\ key.type = "float"
    /\ exc = "TypeError"
    /\ _count > 0

\* C9: __getitem__, __len__ and counts leave data, n_samples, modes and the
\* cursor unchanged and __next__ changes only the cursor; __getitem__(k),
\* __len__() and counts(axis) give in every state what they gave on the new
\* instance.
C9_ReadOnly ==
    /\ [](Answers = fresh)
    /\ [][/\ op' \in {"getitem", "len", "counts"} => UNCHANGED prog
          /\ op' = "next" => UNCHANGED <<data, n_samples, modes>>]_vars

C9_Witness ==
    /\ op = "getitem" /\ key.type = "int"
    /\ exc = "IndexError"
    /\ _count > 0
    /\ _count < n_samples

\* C10: the cursor stays within 0 .. n_samples; a successful __next__ returns
\* the row at the old cursor and adds one to it; __next__ raises StopIteration
\* exactly when the cursor is n_samples, and leaves it at 0.
C10_Cursor ==
    /\ _count = 0
    /\ [][/\ _count' >= 0 /\ _count' <= n_samples'
          /\ op' = "next" =>
              /\ (exc' = "StopIteration") <=> (_count = n_samples)
              /\ exc' = "StopIteration" => _count' = 0
              /\ exc' # "StopIteration" =>
                  /\ exc' = "none"
                  /\ ret' = Row(_count)
                  /\ _count' = _count + 1]_vars

C10_Witness ==
    /\ op = "next" /\ exc = "StopIteration"
    /\ n_samples >= 2
    /\ _count = 0

====
